---- MODULE Spec2Model ----
(***************************************************************************)
(* Model of the bill-extraction service: the vision pipeline               *)
(* (src/src/pipeline.py, src/src/llm_utils.py) behind the HTTP layer       *)
(* (src/src/api_server.py).                                                *)
(*                                                                         *)
(* One action is one run of the event loop between two awaits: asyncio is  *)
(* cooperative, so the code between two suspension points is atomic.       *)
(*                                                                         *)
(* Python values are encoded as records of one shape, [kind, n, s, l]:     *)
(*   kind "none"  : None / JSON null                                       *)
(*   kind "num"   : a JSON number, value n                                 *)
(*   kind "float" : a Python float, value n                                *)
(*   kind "str"   : a string, s is its sequence of characters (a string    *)
(*                  the code never takes apart is kept as one element)     *)
(*   kind "list"  : a list, l is the sequence of its elements              *)
(* A dict is a function from its keys to such values.                      *)
(***************************************************************************)
EXTENDS Integers, Sequences, FiniteSets, TLC

\* ---------------------------------------------------------------- bounds
MaxPages  == 2   \* pages of a PDF when every collaborator outcome is explored
BulkPages == 6   \* pages of a PDF that outnumbers the semaphore permits
MaxItems  == 2   \* longest list of well-formed dicts the vision model returns
MaxTokLen == 3   \* longest token drawn from the token alphabet
MaxWords  == 2   \* most word boxes of a page drawn from the box alphabet
MaxLogged == 12  \* longest API_HISTORY the request run follows
MaxOcrPages == 2 \* most pages of a PDF sent to the OCR pipeline

\* ------------------------------------------------------ program constants
SemSize     == 5     \* asyncio.Semaphore(5)
max_retries == 5     \* attempts of the vision call
HistoryCap  == 10    \* API_HISTORY is trimmed above this length
y_tol       == 14    \* default tolerance of group_lines

\* ----------------------------------------------------------- Python values
PyNone     == [kind |-> "none",  n |-> 0, s |-> <<>>, l |-> <<>>]
PyNum(v)   == [kind |-> "num",   n |-> v, s |-> <<>>, l |-> <<>>]
PyFloat(v) == [kind |-> "float", n |-> v, s |-> <<>>, l |-> <<>>]
PyStr(cs)  == [kind |-> "str",   n |-> 0, s |-> cs,   l |-> <<>>]
PyList(xs) == [kind |-> "list",  n |-> 0, s |-> <<>>, l |-> xs]

\* isinstance(x, dict): every other value carries its kind
IsDict(x) == "kind" \notin DOMAIN x

\* d.get(k, default)
Get(d, k, default) == IF k \in DOMAIN d THEN d[k] ELSE default

Digits     == <<"0", "1", "2", "3", "4", "5", "6", "7", "8", "9">>
Whitespace == {" "}

IsDigit(c)  == \E d \in 1..10 : Digits[d] = c
DigitVal(c) == (CHOOSE d \in 1..10 : Digits[d] = c) - 1

\* str(n) for a non-negative integer: its decimal digits
RECURSIVE Str(_)
Str(v) == IF v < 10 THEN <<Digits[v + 1]>>
          ELSE Str(v \div 10) \o <<Digits[(v % 10) + 1]>>

\* int(s) for a string of decimal digits
RECURSIVE PyInt(_)
PyInt(cs) == IF cs = <<>> THEN 0
           ELSE 10 * PyInt(SubSeq(cs, 1, Len(cs) - 1)) + DigitVal(cs[Len(cs)])

RECURSIVE LStrip(_)
LStrip(cs) == IF cs = <<>> THEN cs
              ELSE IF Head(cs) \in Whitespace THEN LStrip(Tail(cs)) ELSE cs

RECURSIVE RStrip(_)
RStrip(cs) == IF cs = <<>> THEN cs
              ELSE IF cs[Len(cs)] \in Whitespace
                   THEN RStrip(SubSeq(cs, 1, Len(cs) - 1)) ELSE cs

\* str.strip()
Strip(cs) == RStrip(LStrip(cs))

\* Variant: repr(x) in place of str(x), which quotes a string
PyStrOfRepr(x) ==
    CASE x.kind = "none"  -> <<"N", "o", "n", "e">>
      [] x.kind = "str"   -> <<"'">> \o x.s \o <<"'">>
      [] x.kind = "list"  -> <<"[", "]">>
      [] x.kind = "num"   -> Str(x.n)
      [] x.kind = "float" -> Str(x.n) \o <<".", "0">>

\* str(x) of a Python value
PyStrOf(x) ==
    CASE x.kind = "none"  -> <<"N", "o", "n", "e">>
      [] x.kind = "str"   -> x.s
      [] x.kind = "list"  -> <<"[", "]">>   \* the repr of the elements is not modelled
      [] x.kind = "num"   -> Str(x.n)
      [] x.kind = "float" -> Str(x.n) \o <<".", "0">>

\* float(x): [ok |-> FALSE] stands for the ValueError / TypeError it raises.
\* A string converts when, stripped, it is digits with an optional ".0".
FloatOf(x) ==
    CASE x.kind \in {"num", "float"} -> [ok |-> TRUE, v |-> x.n]
      [] x.kind = "str" ->
           LET t == Strip(x.s)
               m == IF Len(t) >= 3 /\ SubSeq(t, Len(t) - 1, Len(t)) = <<".", "0">>
                    THEN SubSeq(t, 1, Len(t) - 2) ELSE t
           IN  IF m # <<>> /\ \A i \in 1..Len(m) : IsDigit(m[i])
               THEN [ok |-> TRUE, v |-> PyInt(m)]
               ELSE [ok |-> FALSE, v |-> 0]
      [] OTHER -> [ok |-> FALSE, v |-> 0]

\* ------------------------------------------------------- page task helpers
ItemKeys  == {"item_name", "item_amount", "item_rate", "item_quantity"}
NumFields == {"item_quantity", "item_rate", "item_amount"}

Pharmacy   == PyStr(<<"Pharmacy">>)
FinalBill  == PyStr(<<"Final Bill">>)
BillDetail == PyStr(<<"Bill Detail">>)
PageTypes  == {Pharmacy, FinalBill, BillDetail}

base_usage == [input_tokens |-> 0, output_tokens |-> 0, total_tokens |-> 0]

\* Variant: "float(val) if val is not None else None"
NormFieldKeepsNone(val) ==
    IF val.kind # "none"
    THEN IF FloatOf(val).ok THEN PyFloat(FloatOf(val).v) ELSE PyFloat(0)
    ELSE PyNone

\* float(val) if val is not None else 0.0, and 0.0 when float() raises
NormField(val) ==
    IF val.kind # "none"
    THEN IF FloatOf(val).ok THEN PyFloat(FloatOf(val).v) ELSE PyFloat(0)
    ELSE PyFloat(0)

\* The body of the normalisation loop for one dict: the four keys are
\* assigned, every other key of the dict is left as it was.
NormalizeItem(item) ==
    [k \in (DOMAIN item) \cup ItemKeys |->
        IF k = "item_name"
        THEN PyStr(Strip(PyStrOf(Get(item, "item_name", PyStr(<<>>)))))
        ELSE IF k \in NumFields
             THEN NormField(Get(item, k, PyNone))
             ELSE item[k]]

\* item.get(...) on a value that is no dict raises AttributeError outside
\* the inner try, so the loop raises as soon as it meets such an item.
NormalizeRaises(items) == \E i \in 1..Len(items) : ~IsDict(items[i])

Normalize(items) == [i \in 1..Len(items) |-> NormalizeItem(items[i])]

\* The flattening loop of parse_items_with_llm
RECURSIVE Flatten(_)
Flatten(raw_items) ==
    IF raw_items = <<>> THEN <<>>
    ELSE LET item == Head(raw_items)
         IN  IF IsDict(item) /\ "items" \in DOMAIN item /\ item["items"].kind = "list"
             THEN item["items"].l \o Flatten(Tail(raw_items))
             ELSE <<item>> \o Flatten(Tail(raw_items))

\* The elements a for loop visits: those of a list, the characters of a
\* string; any other value raises TypeError.
Iterable(x)   == x.kind \in {"list", "str"}
ElementsOf(x) == IF x.kind = "list" THEN x.l
                 ELSE [i \in 1..Len(x.s) |-> PyStr(<<x.s[i]>>)]

\* What one successful generate_content_async call leads to, from
\* "usage = base_usage.copy()" to "return p_type, flat_items, usage":
\* [raised |-> TRUE] when json.loads, parsed.get or the loop raises.
ParseResponse(resp) ==
    LET usage == IF resp.has_usage THEN resp.usage ELSE base_usage
        parsed == resp.parsed
        raise  == [raised |-> TRUE, p_type |-> BillDetail, items |-> <<>>, usage |-> base_usage]
    IN  IF ~resp.json_ok THEN raise
        ELSE IF ~IsDict(parsed) /\ parsed.kind = "list"
        THEN [raised |-> FALSE, p_type |-> BillDetail,
              items |-> Flatten(parsed.l), usage |-> usage]
        ELSE IF ~IsDict(parsed) THEN raise
        ELSE LET raw_items == Get(parsed, "items", PyList(<<>>))
             IN  IF ~Iterable(raw_items) THEN raise
                 ELSE [raised |-> FALSE,
                       p_type |-> Get(parsed, "page_type", BillDetail),
                       items  |-> Flatten(ElementsOf(raw_items)),
                       usage  |-> usage]

\* --- the retry loop of parse_items_with_llm
\* The classes of str(e) the except block tells apart: "404" in error_str
\* is tested first, then "429" in error_str
ErrorClasses == {"404", "429", "other"}

\* random.uniform(0.1, 0.5), in tenths of a second: the two ends
Jitter == {1, 5}

\* Variant: the delay grows with attempt, not attempt + 1
SleepTimeFromZero(a, jitter) == (15 * a) + jitter

\* sleep_time = (1.5 * (attempt + 1)) + random.uniform(0.1, 0.5), in tenths
\* of a second
SleepTime(a, jitter) == (15 * (a + 1)) + jitter

\* "404" in error_str: the cached model name is reset and the loop goes on
ModelNotFound(err) == err = "404"

\* Variant: every exception before the last attempt backs off
BackoffAnyError(err, a) == a < max_retries - 1

\* "429" in error_str and attempt < max_retries - 1
Backoff(err, a) == err = "429" /\ a < max_retries - 1

\* str(page_num)
PageNo(page_num) == PyStr(Str(page_num))

\* The dict process_page_task returns from its try block
PageResult(page_num, p_type, items, usage) ==
    [page_no |-> PageNo(page_num), page_type |-> p_type,
     bill_items |-> items, token_usage |-> usage]

\* Variant: the except block leaves the page type unset
FailedResultNoType(page_num) ==
    [page_no |-> PageNo(page_num), page_type |-> PyNone,
     bill_items |-> <<>>, token_usage |-> base_usage]

\* The dict process_page_task returns from its except block
FailedResult(page_num) ==
    [page_no |-> PageNo(page_num), page_type |-> BillDetail,
     bill_items |-> <<>>, token_usage |-> base_usage]

\* ------------------------------------------- what the vision model returns
ItFull   == [item_name |-> PyStr(<<" ", "a", " ">>), item_quantity |-> PyNum(2),
             item_rate |-> PyStr(<<" ", "3", "5">>), item_amount |-> PyNum(70)]
ItSparse == [item_name |-> PyNone, item_rate |-> PyList(<<PyNum(1)>>),
             item_amount |-> PyStr(<<"n", "a">>)]
ItEmpty  == [k \in {} |-> PyNone]
ItGroup  == [items |-> PyList(<<ItFull, ItEmpty>>)]
ItString == PyStr(<<"a">>)

\* Lists of well-formed dicts, up to MaxItems long
DictLists == UNION {[1..len -> {ItFull, ItSparse}] : len \in 0..MaxItems}

ItemLists == DictLists \cup
             {<<ItEmpty>>, <<ItGroup>>, <<ItString>>, <<PyNone>>,
              <<ItFull, PyList(<<ItFull>>)>>}

SomeUsage == [input_tokens |-> 7, output_tokens |-> 3, total_tokens |-> 10]

Reply(parsed) == [json_ok |-> TRUE, parsed |-> parsed,
                  has_usage |-> TRUE, usage |-> SomeUsage]

\* Every reply the model explores: the item lists under a fixed page type,
\* the page types (valid, unknown, null, absent) over a fixed list, and the
\* other shapes of the JSON text.
Responses ==
       {Reply([page_type |-> Pharmacy, items |-> PyList(xs)]) : xs \in ItemLists}
  \cup {Reply([page_type |-> t, items |-> PyList(<<ItFull>>)]) :
            t \in {FinalBill, BillDetail, PyStr(<<"Invoice">>), PyNone}}
  \cup {Reply([items |-> PyList(<<ItFull>>)]),
        Reply([page_type |-> FinalBill]),
        Reply([page_type |-> FinalBill, items |-> PyNone]),
        Reply([page_type |-> FinalBill, items |-> PyStr(<<"a", "b">>)]),
        Reply(PyList(<<ItFull, ItGroup>>)),
        Reply(PyStr(<<"a">>)),
        [json_ok |-> FALSE, parsed |-> PyNone, has_usage |-> TRUE, usage |-> SomeUsage],
        [json_ok |-> TRUE, parsed |-> [page_type |-> Pharmacy, items |-> PyList(<<ItSparse>>)],
         has_usage |-> FALSE, usage |-> base_usage]}

\* The one reply explored for a document of BulkPages pages
BulkResponses == {Reply([page_type |-> Pharmacy, items |-> PyList(<<ItFull>>)])}

\* ------------------------------------------------------ document helpers
SupportedImages == {".png", ".jpg", ".jpeg", ".webp"}
Exts            == {".pdf", ".txt", ".bin"} \cup SupportedImages

\* Variant: range(max_pages)
PageNumbersFromZero(n) == [i \in 1..n |-> i - 1]

\* range(1, max_pages + 1)
PageNumbers(n) == [i \in 1..n |-> i]

\* Variant: the tasks are launched without the semaphore
SemFreeAlways(value) == TRUE

\* "async with sem" can enter
SemFree(value) == value > 0

\* results = await asyncio.gather(*tasks): the results in the order of the
\* awaitables, whatever the order they finished in
Gather(returned) == [i \in 1..Len(returned) |-> returned[i]]

RECURSIVE SumLen(_)
SumLen(rs) == IF rs = <<>> THEN 0 ELSE Len(Head(rs).bill_items) + SumLen(Tail(rs))

\* Variant: "total_items = len(...)" in place of "+="
TotalItemsLastPage(final_results) ==
    IF final_results = <<>> THEN 0
    ELSE Len(final_results[Len(final_results)].bill_items)

\* total_items after the aggregation loop
TotalItems(final_results) == SumLen(final_results)

RECURSIVE SumUsage(_, _)
SumUsage(rs, k) == IF rs = <<>> THEN 0
                   ELSE Get(Head(rs).token_usage, k, 0) + SumUsage(Tail(rs), k)

\* Variant: the usage of a page is added under "total_tokens" only
TotalUsageTotalOnly(final_results) ==
    [k \in DOMAIN base_usage |->
        IF k = "total_tokens" THEN SumUsage(final_results, k) ELSE 0]

\* total_usage after the aggregation loop
TotalUsage(final_results) == [k \in DOMAIN base_usage |-> SumUsage(final_results, k)]

\* key=lambda x: int(x["page_no"])
SortKey(r) == PyInt(r.page_no.s)

\* list.sort is stable: r goes after the last element whose key is <= its key
RECURSIVE InsertSorted(_, _)
InsertSorted(sorted, r) ==
    IF sorted = <<>> THEN <<r>>
    ELSE IF SortKey(sorted[Len(sorted)]) <= SortKey(r) THEN Append(sorted, r)
    ELSE Append(InsertSorted(SubSeq(sorted, 1, Len(sorted) - 1), r), sorted[Len(sorted)])

RECURSIVE SortedPrefix(_, _)
SortedPrefix(rs, n) == IF n = 0 THEN <<>> ELSE InsertSorted(SortedPrefix(rs, n - 1), rs[n])

\* Variant: the sort called with reverse=True
SortByPageNoReversed(rs) ==
    LET sorted == SortedPrefix(rs, Len(rs))
    IN  [i \in 1..Len(rs) |-> sorted[Len(rs) + 1 - i]]

\* final_results.sort(key=lambda x: int(x["page_no"]))
SortByPageNo(rs) == SortedPrefix(rs, Len(rs))

\* cleaned_results: each page without its token_usage
Cleaned(rs) == [i \in 1..Len(rs) |->
                  [page_no |-> rs[i].page_no, page_type |-> rs[i].page_type,
                   bill_items |-> rs[i].bill_items]]

\* The dict process_bill_async returns
DocumentResult(returned) ==
    LET final_results == Gather(returned)
    IN  [is_success  |-> TRUE,
         token_usage |-> TotalUsage(final_results),
         data |-> [pagewise_line_items |-> Cleaned(SortByPageNo(final_results)),
                   total_item_count    |-> TotalItems(final_results)]]

\* What the HTTP client receives
NoResponse   == [status |-> 0, body |-> <<>>]
OkResponse(result) == [status |-> 200, body |-> result]
\* raise HTTPException(status_code=500, detail=str(e))
HttpError(detail)  == [status |-> 500, body |-> [detail |-> detail]]

\* API_HISTORY after a successful request
LogSuccess(history) ==
    LET h == <<"response">> \o history
    IN  IF Len(h) > HistoryCap THEN SubSeq(h, 1, Len(h) - 1) ELSE h

\* API_HISTORY after a failed request
LogError(history) == <<"error">> \o history

\* ------------------------------------------------------------ simple_parser
\* A float as the decimal m / 10^d without trailing zeros; NoFloat is None
NoFloat == [none |-> TRUE, m |-> 0, d |-> 0]

RECURSIVE Float(_, _)
Float(m, d) == IF d > 0 /\ m % 10 = 0 THEN Float(m \div 10, d - 1)
               ELSE [none |-> FALSE, m |-> m, d |-> d]

RECURSIVE Pow10(_)
Pow10(k) == IF k = 0 THEN 1 ELSE 10 * Pow10(k - 1)

Abs(v) == IF v < 0 THEN -v ELSE v

\* round(v, 2). A value of at most two decimals is returned as it is; a
\* longer one goes to the nearest hundredth, an exact decimal tie to the
\* even one (the binary float of a tie may lie on either side of it).
Round2(v) ==
    IF v.none \/ v.d <= 2 THEN v
    ELSE LET unit == Pow10(v.d - 2)
             q    == Abs(v.m) \div unit
             r    == Abs(v.m) % unit
             up   == (2 * r > unit) \/ (2 * r = unit /\ q % 2 = 1)
             h    == IF up THEN q + 1 ELSE q
         IN  Float(IF v.m < 0 THEN -h ELSE h, 2)

\* s.replace(old, ''): the occurrences of old found from left to right
RECURSIVE Remove(_, _)
Remove(s, old) ==
    IF Len(s) < Len(old) THEN s
    ELSE IF SubSeq(s, 1, Len(old)) = old
         THEN Remove(SubSeq(s, Len(old) + 1, Len(s)), old)
         ELSE <<Head(s)>> \o Remove(Tail(s), old)

\* re.sub(r'[^\d\.\-]', '', s)
IsNumberChar(c) == IsDigit(c) \/ c \in {".", "-"}
NumberChars(s)  == SelectSeq(s, IsNumberChar)

\* float(s) for a string of digits, dots and minus signs: an optional
\* leading minus, digits around at most one dot, one digit at least;
\* NoFloat stands for the ValueError the caller turns into None
ParseFloat(s) ==
    LET neg   == s # <<>> /\ s[1] = "-"
        body  == IF neg THEN Tail(s) ELSE s
        dots  == {i \in 1..Len(body) : body[i] = "."}
        p     == IF dots = {} THEN Len(body) + 1 ELSE CHOOSE i \in dots : TRUE
        whole == SubSeq(body, 1, p - 1)
        frac  == SubSeq(body, p + 1, Len(body))
        valid == /\ Cardinality(dots) <= 1
                 /\ \A i \in 1..Len(body) : body[i] # "-"
                 /\ Len(whole) + Len(frac) >= 1
    IN  IF valid
        THEN Float((IF neg THEN -1 ELSE 1) * PyInt(whole \o frac), Len(frac))
        ELSE NoFloat

\* Variant: the "/-" suffix is left to the character filter
clean_number_token_no_suffix(tok) ==
    LET s1 == Strip(tok)
        s2 == Remove(Remove(s1, <<"₹">>), <<"$">>)
        s3 == Remove(s2, <<",">>)
        s4 == NumberChars(s3)
    IN  IF s4 \in {<<>>, <<".">>, <<"-">>} THEN NoFloat ELSE ParseFloat(s4)

\* clean_number_token(tok) for a string tok
clean_number_token(tok) ==
    LET s1 == Strip(tok)
        s2 == Remove(Remove(Remove(s1, <<"₹">>), <<"$">>), <<"/", "-">>)
        s3 == Remove(s2, <<",">>)
        s4 == NumberChars(s3)
    IN  IF s4 \in {<<>>, <<".">>, <<"-">>} THEN NoFloat ELSE ParseFloat(s4)

is_number_token(tok) == ~clean_number_token(tok).none

\* top + height / 2, counted in half pixels to stay in the integers
y_center(w) == (2 * w.top) + w.height

\* sorted(xs, key=...) where keys[i] is the key of xs[i]: the sort is
\* stable, so xs[i] lands behind every element of a smaller key and every
\* earlier element of the same key
Rank(keys, i) ==
    Cardinality({j \in DOMAIN keys : keys[j] < keys[i] \/ (keys[j] = keys[i] /\ j < i)}) + 1

StableSort(xs, keys) ==
    [p \in 1..Len(xs) |-> xs[CHOOSE i \in 1..Len(xs) : Rank(keys, i) = p]]

\* " ".join(texts)
RECURSIVE Join(_)
Join(texts) == IF texts = <<>> THEN <<>>
               ELSE IF Len(texts) = 1 THEN texts[1]
               ELSE texts[1] \o <<" ">> \o Join(Tail(texts))

Texts(ws) == [i \in 1..Len(ws) |-> ws[i].text]
Lefts(ws) == [i \in 1..Len(ws) |-> ws[i].left]

\* The loop of group_lines over words_sorted[1:]: a word joins the current
\* line when its centre is within y_tol of the centre of the line's last
\* word, else the line is closed and the word opens the next one
\* Variant: a word is compared with the first word of the current line
JoinsFirst(w, cur) == Abs(y_center(w) - y_center(cur[1])) <= 2 * y_tol

\* abs(y_center(w) - y_center(current[-1])) <= y_tol
Joins(w, cur) == Abs(y_center(w) - y_center(cur[Len(cur)])) <= 2 * y_tol

RECURSIVE GroupLoop(_, _, _)
GroupLoop(rest, closed, cur) ==
    IF rest = <<>> THEN Append(closed, cur)
    ELSE LET w == Head(rest)
         IN  IF Joins(w, cur)
             THEN GroupLoop(Tail(rest), closed, Append(cur, w))
             ELSE GroupLoop(Tail(rest), Append(closed, cur), <<w>>)

\* Variant: the words of a line stay in the order of the vertical sort
LineOfUnsorted(line) == [text |-> Join(Texts(line)), words |-> line]

\* The dict group_lines appends for one line
LineOf(line) ==
    LET line_sorted == StableSort(line, Lefts(line))
    IN  [text |-> Join(Texts(line_sorted)), words |-> line_sorted]

group_lines(ws) ==
    IF ws = <<>> THEN <<>>
    ELSE LET words_sorted == StableSort(ws, [i \in 1..Len(ws) |-> y_center(ws[i])])
             grouped      == GroupLoop(Tail(words_sorted), <<>>, <<Head(words_sorted)>>)
         IN  [k \in 1..Len(grouped) |-> LineOf(grouped[k])]

\* numerics: (left, text, val) of every word whose text is a number
IsNumericWord(w) == is_number_token(w.text)

Numerics(ws) ==
    LET nums == SelectSeq(ws, IsNumericWord)
    IN  [i \in 1..Len(nums) |->
            [left |-> nums[i].left, text |-> nums[i].text,
             val |-> clean_number_token(nums[i].text)]]

\* Variant: the roles are counted from the left
RoleFromLeft(numerics_sorted, k) ==
    IF Len(numerics_sorted) >= k THEN numerics_sorted[k].val ELSE NoFloat

\* numerics_sorted[-k] when there are k numerics at least, else None
Role(numerics_sorted, k) ==
    IF Len(numerics_sorted) >= k
    THEN numerics_sorted[Len(numerics_sorted) - k + 1].val
    ELSE NoFloat

RECURSIVE RemoveEach(_, _)
RemoveEach(line_text, raws) ==
    IF raws = <<>> THEN line_text
    ELSE RemoveEach(Remove(line_text, Head(raws)), Tail(raws))

Min(S) == CHOOSE v \in S : \A u \in S : v <= u

\* The item parse_items appends for a line that has a numeric word
ItemOfLine(line) ==
    LET numerics_sorted == StableSort(Numerics(line.words), Lefts(Numerics(line.words)))
        cutoff     == Min({numerics_sorted[i].left : i \in 1..Len(numerics_sorted)})
        LeftOfCutoff(w) == w.left < cutoff
        name_parts == Texts(SelectSeq(line.words, LeftOfCutoff))
        joined     == Strip(Join(name_parts))
        name       == IF joined # <<>> THEN joined
                      ELSE Strip(RemoveEach(line.text, Texts(numerics_sorted)))
    IN  [item_name     |-> IF name # <<>> THEN PyStr(name) ELSE PyNone,
         item_amount   |-> Round2(Role(numerics_sorted, 1)),
         item_rate     |-> Round2(Role(numerics_sorted, 2)),
         item_quantity |-> Round2(Role(numerics_sorted, 3))]

\* items before the de-duplication: one item per line with a numeric word
RECURSIVE ItemsOfLines(_)
ItemsOfLines(ls) ==
    IF ls = <<>> THEN <<>>
    ELSE IF Numerics(Head(ls).words) = <<>> THEN ItemsOfLines(Tail(ls))
    ELSE <<ItemOfLine(Head(ls))>> \o ItemsOfLines(Tail(ls))

UpperCase == <<"A", "B", "C", "D", "E", "F", "G", "H", "I", "J", "K", "L", "M",
               "N", "O", "P", "Q", "R", "S", "T", "U", "V", "W", "X", "Y", "Z">>
LowerCase == <<"a", "b", "c", "d", "e", "f", "g", "h", "i", "j", "k", "l", "m",
               "n", "o", "p", "q", "r", "s", "t", "u", "v", "w", "x", "y", "z">>

\* str.lower() on ASCII text
LowerChar(c) == IF \E i \in 1..26 : UpperCase[i] = c
                THEN LowerCase[CHOOSE i \in 1..26 : UpperCase[i] = c] ELSE c
Lower(s) == [i \in 1..Len(s) |-> LowerChar(s[i])]

\* Variant: the name enters the key as it is written
DedupKeyExact(it) ==
    <<IF it.item_name.kind = "none" THEN <<>> ELSE it.item_name.s, it.item_amount>>

\* ((it['item_name'] or '').lower(), it['item_amount'])
DedupKey(it) ==
    <<IF it.item_name.kind = "none" THEN <<>> ELSE Lower(it.item_name.s), it.item_amount>>

\* The de-duplication loop: an item whose key was seen is skipped
RECURSIVE Dedup(_, _)
Dedup(its, seen) ==
    IF its = <<>> THEN <<>>
    ELSE IF DedupKey(Head(its)) \in seen THEN Dedup(Tail(its), seen)
    ELSE <<Head(its)>> \o Dedup(Tail(its), seen \cup {DedupKey(Head(its))})

parse_items(ls) == Dedup(ItemsOfLines(ls), {})

keywords == {<<"t", "o", "t", "a", "l">>,
             <<"s", "u", "b", "t", "o", "t", "a", "l">>,
             <<"g", "r", "a", "n", "d", " ", "t", "o", "t", "a", "l">>,
             <<"a", "m", "o", "u", "n", "t", " ", "p", "a", "y", "a", "b", "l", "e">>,
             <<"n", "e", "t", " ", "a", "m", "o", "u", "n", "t">>,
             <<"b", "a", "l", "a", "n", "c", "e", " ", "d", "u", "e">>,
             <<"i", "n", "v", "o", "i", "c", "e", " ", "t", "o", "t", "a", "l">>,
             <<"t", "o", "t", "a", "l", " ", "a", "m", "o", "u", "n", "t">>}

\* k in t
Contains(t, k) == \E i \in 0..(Len(t) - Len(k)) : SubSeq(t, i + 1, i + Len(k)) = k

HasKeyword(text) == \E k \in keywords : Contains(Lower(text), k)

\* Variant: on a keyword line the first numeric word is taken
TotalOfLineLeftmost(line) ==
    LET nums == SelectSeq(line.words, IsNumericWord)
    IN  IF HasKeyword(line.text)
        THEN IF nums # <<>>
             THEN Round2(clean_number_token(StableSort(nums, Lefts(nums))[1].text))
             ELSE NoFloat
        ELSE IF Len(line.words) <= 4 /\ Len(nums) = 1
             THEN Round2(clean_number_token(nums[1].text))
             ELSE NoFloat

\* The value find_totals records for a line, None when it records none
TotalOfLine(line) ==
    LET nums == SelectSeq(line.words, IsNumericWord)
    IN  IF HasKeyword(line.text)
        THEN IF nums # <<>>
             THEN Round2(clean_number_token(StableSort(nums, Lefts(nums))[Len(nums)].text))
             ELSE NoFloat
        ELSE IF Len(line.words) <= 4 /\ Len(nums) = 1
             THEN Round2(clean_number_token(nums[1].text))
             ELSE NoFloat

\* totals[key] = value: a new key goes to the end of the dict, a known
\* key keeps its place and takes the value
DictSet(dict, key, value) ==
    IF \E i \in 1..Len(dict) : dict[i].key = key
    THEN [i \in 1..Len(dict) |->
             IF dict[i].key = key THEN [key |-> key, value |-> value] ELSE dict[i]]
    ELSE Append(dict, [key |-> key, value |-> value])

\* The loop of find_totals over reversed(lines), n lines still to visit
RECURSIVE TotalsLoop(_, _, _)
TotalsLoop(ls, n, totals_so_far) ==
    IF n = 0 THEN totals_so_far
    ELSE LET val == TotalOfLine(ls[n])
         IN  TotalsLoop(ls, n - 1,
                        IF val.none THEN totals_so_far
                        ELSE DictSet(totals_so_far, Strip(ls[n].text), val))

find_totals(ls) == TotalsLoop(ls, Len(ls), <<>>)

\* ------------------------------------------------------------------ state
VARIABLES
    profile,         \* "full": short documents, every collaborator outcome;
                     \* "bulk": a long PDF, collaborators that succeed or raise
    api_pc,          \* process_extraction_logic: "idle", "pipeline", "responded"
    API_HISTORY,     \* the in-memory history, newest first
    response,        \* what the HTTP client receives
    doc_pc,          \* process_bill_async: "idle", "download", "gather",
                     \* "returned", "raised"
    ext,             \* extension of the downloaded copy ("" before the download)
    is_pdf,
    max_pages,       \* page count pdfinfo reported (0 when not a PDF)
    local_file,      \* TRUE while the downloaded copy is on disk
    tasks,           \* page number of each page task, in launch order
    sem,             \* free permits of the semaphore
    pc,              \* per task: "pending", "convert", "optimize", "open_img",
                     \* "generate", "sleep", "done"
    attempt,         \* per task: loop variable of the retry loop
    sleep_time,      \* per task: tenths of a second of the asyncio.sleep in
                     \* progress, 0 when the task is not sleeping
    last_error,      \* per task: how the except block classified the
                     \* exception of the latest attempt ("none": no exception)
    temp_jpeg_path,  \* per task: TRUE when the local variable holds a path
    CACHED_MODEL_NAME,  \* the module-level cache of llm_utils: 0 for None,
                     \* else the task whose call stored the cached name
    calls,           \* per call of the OCR endpoint: its position, its
                     \* document, its locals and its response
    IMAGES_DIR,      \* data/images: what page_<n>.png and
                     \* _temp_pdf_page_<n>.png hold
    model_from,      \* per task: 0 when get_optimal_model_name worked the
                     \* name out for the task, else the task whose cached
                     \* name it returned
    tmp_files,       \* tasks whose temporary JPEG is on disk
    page_result,     \* per task: the dict process_page_task returned
    failed_at,       \* per task: the step whose exception the task logged
    extracted,       \* per task: whether parse_items_with_llm returned,
                     \* and the items it returned
    overtaken,       \* TRUE once a task returned before one launched earlier
    ocr_pc,          \* the parser run: "off", "token", "cleaned", "words",
                     \* "lines", "items", "totals"
    token,           \* the string handed to clean_number_token
    token_value,     \* what clean_number_token returned
    words,           \* the word boxes ocr_page returned for a page
    lines,           \* what group_lines returned
    parsed_items,    \* the list "items" of parse_items before de-duplication
    dedup,           \* what parse_items returned
    totals           \* what find_totals returned, in insertion order

vars == <<profile, api_pc, API_HISTORY, response, doc_pc, ext, is_pdf,
          local_file, tasks, sem, pc, attempt, sleep_time, last_error,
          temp_jpeg_path, tmp_files, page_result, failed_at, extracted,
          overtaken, max_pages, ocr_pc, token, token_value, words, lines,
          parsed_items, dedup, totals, CACHED_MODEL_NAME, model_from,
          calls, IMAGES_DIR>>

api_vars  == <<api_pc, API_HISTORY, response>>
doc_vars  == <<doc_pc, ext, is_pdf, max_pages, local_file, tasks>>
llm_vars  == <<CACHED_MODEL_NAME, model_from>>
task_vars == <<sem, pc, attempt, sleep_time, last_error, temp_jpeg_path,
               tmp_files, page_result, failed_at, extracted, overtaken, llm_vars>>

ocr_vars      == <<calls, IMAGES_DIR>>
page_vars     == <<ocr_pc, token, token_value, words, lines, parsed_items, dedup, totals>>
parser_vars   == <<page_vars, ocr_vars>>
pipeline_vars == <<profile, api_vars, doc_vars, task_vars>>

Tasks == 1..Len(tasks)

\* A result slot no task has written yet
NoResult == [page_no |-> PyNone, page_type |-> PyNone,
             bill_items |-> <<>>, token_usage |-> base_usage]

\* No request has arrived
PipelineIdle ==
    /\ api_pc = "idle"
    /\ API_HISTORY = <<>>
    /\ response = NoResponse
    /\ doc_pc = "idle"
    /\ ext = ""
    /\ is_pdf = FALSE
    /\ local_file = FALSE
    /\ tasks = <<>>
    /\ sem = SemSize
    /\ pc = <<>>
    /\ attempt = <<>>
    /\ sleep_time = <<>>
    /\ last_error = <<>>
    /\ temp_jpeg_path = <<>>
    /\ tmp_files = {}
    /\ page_result = <<>>
    /\ failed_at = <<>>
    /\ extracted = <<>>
    /\ overtaken = FALSE
    /\ max_pages = 0
    /\ CACHED_MODEL_NAME = 0
    /\ model_from = <<>>

\* The two concurrent calls of the OCR endpoint the model follows
Calls == {"A", "B"}

\* A file of data/images that was never written. A file is known by the
\* call that wrote it and the page it wrote it for; "image" tells whether
\* cv2.imread can decode it
NoFile == [call |-> "", page |-> 0, image |-> FALSE]

\* No call of the OCR endpoint has arrived and data/images is empty
OcrIdle ==
    /\ calls = [c \in Calls |->
                  [pc |-> "idle", kind |-> "", pages |-> 0, page |-> 0,
                   local_file |-> FALSE, fallback |-> FALSE, stable |-> FALSE,
                   pagewise |-> <<>>, total_items |-> 0,
                   ocr_input |-> [page_no |-> 0, file |-> NoFile],
                   raised |-> {}, outcome |-> "", response |-> NoResponse]]
    /\ IMAGES_DIR = [page |-> [n \in 1..MaxOcrPages |-> NoFile],
                     temp |-> [n \in 1..MaxOcrPages |-> NoFile]]

\* No parser run
ParserOff ==
    /\ OcrIdle
    /\ ocr_pc = "off"
    /\ token = <<>>
    /\ token_value = NoFloat
    /\ words = <<>>
    /\ lines = <<>>
    /\ parsed_items = <<>>
    /\ dedup = <<>>
    /\ totals = <<>>

Init ==
    /\ profile \in {"full", "bulk"}
    /\ PipelineIdle
    /\ ParserOff

\* Page counts pdfinfo_from_path reports, and the outcomes of each
\* collaborator, under the profile
PageCounts       == IF profile = "full" THEN 1..MaxPages ELSE {BulkPages}
DocExts          == IF profile = "full" THEN Exts ELSE {".pdf"}
ConvertOutcomes  == IF profile = "full" THEN {"ok", "empty", "raise"} ELSE {"ok", "raise"}
OptimizeOutcomes == IF profile = "full" THEN {"ok", "fail_early", "fail_save"} ELSE {"ok"}
OpenOutcomes     == IF profile = "full" THEN {"ok", "raise"} ELSE {"ok"}
ModelErrors      == IF profile = "full" THEN ErrorClasses ELSE {}
ModelReplies     == IF profile = "full" THEN Responses ELSE BulkResponses
\* get_optimal_model_name with an empty cache: "cached" when it picks a
\* name from genai.list_models() and stores it, "uncached" when
\* GEMINI_MODEL_NAME is set or list_models raises
NameOutcomes     == IF profile = "full" THEN {"cached", "uncached"} ELSE {"uncached"}

\* ---------------------------------------------------------- HTTP layer
\* The exception of the pipeline reaches process_extraction_logic's except
PipelineRaises(detail) ==
    /\ doc_pc' = "raised"
    /\ API_HISTORY' = LogError(API_HISTORY)
    /\ response' = HttpError(detail)
    /\ api_pc' = "responded"

\* process_extraction_logic up to the call of process_bill
Request(body) ==
    /\ api_pc = "idle"
    /\ IF body = "url"
       THEN /\ api_pc' = "pipeline"
            /\ doc_pc' = "download"
            /\ UNCHANGED <<API_HISTORY, response>>
       ELSE /\ api_pc' = "responded"
            /\ API_HISTORY' = LogError(API_HISTORY)
            /\ response' = HttpError(body)
            /\ UNCHANGED doc_pc
    /\ UNCHANGED <<profile, ext, is_pdf, max_pages, local_file, tasks, parser_vars>>
    /\ UNCHANGED task_vars

\* ------------------------------------------------- process_bill_async
NotReturned == [returned |-> FALSE, items |-> <<>>]

\* The tasks list is built and gather starts
Launch(page_nums, pdf) ==
    /\ tasks' = page_nums
    /\ is_pdf' = pdf
    /\ local_file' = TRUE
    /\ doc_pc' = "gather"
    /\ sem' = SemSize
    /\ pc' = [i \in 1..Len(page_nums) |-> "pending"]
    /\ attempt' = [i \in 1..Len(page_nums) |-> 0]
    /\ sleep_time' = [i \in 1..Len(page_nums) |-> 0]
    /\ last_error' = [i \in 1..Len(page_nums) |-> "none"]
    /\ temp_jpeg_path' = [i \in 1..Len(page_nums) |-> FALSE]
    /\ page_result' = [i \in 1..Len(page_nums) |-> NoResult]
    /\ failed_at' = [i \in 1..Len(page_nums) |-> "none"]
    /\ extracted' = [i \in 1..Len(page_nums) |-> NotReturned]
    /\ model_from' = [i \in 1..Len(page_nums) |-> 0]
    /\ UNCHANGED <<tmp_files, overtaken, api_pc, API_HISTORY, response, CACHED_MODEL_NAME>>

\* Variant: the removal stands after the aggregation, not in a finally
LeftWhenRaised(raised) == raised

\* Whether the downloaded copy is left when the try block has ended, by
\* an exception or not: the finally block removes every path of
\* cleanup_list that exists
LeftByFinally(raised) == FALSE

\* requests.get raises: the exception leaves process_bill_async before its try
DownloadFails ==
    /\ doc_pc = "download"
    /\ PipelineRaises("download")
    /\ UNCHANGED <<profile, ext, is_pdf, max_pages, local_file, tasks, parser_vars>>
    /\ UNCHANGED task_vars

\* The download thread ends; the code runs on to gather or to an exception
DownloadDone(e, pages, pdfinfo_ok) ==
    /\ doc_pc = "download"
    /\ ext' = e
    /\ IF e = ".pdf" /\ pdfinfo_ok
       THEN /\ max_pages' = pages
            /\ Launch(PageNumbers(pages), TRUE)
       ELSE IF e \in SupportedImages
       THEN /\ Launch(<<1>>, FALSE)
            /\ UNCHANGED max_pages
       ELSE \* pdfinfo raised or ValueError("Unsupported file type");
            \* the finally block removes the downloaded copy
            /\ local_file' = LeftByFinally(TRUE)
            /\ PipelineRaises(IF e = ".pdf" THEN "pdfinfo" ELSE "unsupported")
            /\ UNCHANGED <<is_pdf, max_pages, tasks>>
            /\ UNCHANGED task_vars
    /\ UNCHANGED <<profile, parser_vars>>

\* ---------------------------------------------------- process_page_task
\* Variant: the permit is kept when the task returns
ReleaseLeaks == UNCHANGED sem

\* "async with sem" exits when the task returns; the single-image task
\* runs outside the semaphore
Release == IF is_pdf THEN sem' = sem + 1 ELSE UNCHANGED sem

\* The task returns its page to gather; its frame, and with it the loop
\* variable of the retry loop, is gone
Finish(i) ==
    /\ pc' = [pc EXCEPT ![i] = "done"]
    /\ attempt' = [attempt EXCEPT ![i] = 0]
    /\ overtaken' = (overtaken \/ \E j \in 1..(i - 1) : pc[j] # "done")
    /\ Release

\* The except block: the error is logged and the default page returned
Fail(i, step) ==
    /\ page_result' = [page_result EXCEPT ![i] = FailedResult(tasks[i])]
    /\ failed_at' = [failed_at EXCEPT ![i] = step]
    /\ Finish(i)

\* parse_items_with_llm returned (p_type, items, usage): normalise, remove
\* the temporary JPEG and return the page, or raise out of the loop
Returned(i, p_type, items, usage) ==
    /\ extracted' = [extracted EXCEPT ![i] = [returned |-> TRUE, items |-> items]]
    /\ IF NormalizeRaises(items)
       THEN /\ Fail(i, "normalize")
            /\ UNCHANGED tmp_files
       ELSE /\ tmp_files' = IF temp_jpeg_path[i] THEN tmp_files \ {i} ELSE tmp_files
            /\ page_result' = [page_result EXCEPT
                                 ![i] = PageResult(tasks[i], p_type, Normalize(items), usage)]
            /\ Finish(i)
            /\ UNCHANGED failed_at

\* The semaphore is entered in launch order (asyncio wakes waiters first
\* come, first served) and the first thread call is submitted
Acquire(i) ==
    /\ doc_pc = "gather"
    /\ pc[i] = "pending"
    /\ is_pdf => SemFree(sem) /\ \A j \in 1..(i - 1) : pc[j] # "pending"
    /\ sem' = IF is_pdf THEN sem - 1 ELSE sem
    /\ pc' = [pc EXCEPT ![i] = IF is_pdf THEN "convert" ELSE "optimize"]
    /\ UNCHANGED <<attempt, sleep_time, last_error, temp_jpeg_path, tmp_files,
                   page_result, failed_at, extracted, overtaken, llm_vars>>
    /\ UNCHANGED <<profile, api_vars, doc_vars, parser_vars>>

\* convert_from_path ends in its thread
ConvertDone(i, outcome) ==
    /\ pc[i] = "convert"
    /\ IF outcome = "ok"
       THEN /\ pc' = [pc EXCEPT ![i] = "optimize"]
            /\ UNCHANGED <<sem, attempt, page_result, failed_at, overtaken>>
       ELSE Fail(i, "convert")
    /\ UNCHANGED <<sleep_time, last_error, temp_jpeg_path, tmp_files, extracted, llm_vars>>
    /\ UNCHANGED <<profile, api_vars, doc_vars, parser_vars>>

\* get_optimal_model_name for task i: the cached name when there is one,
\* else a name worked out anew and, from list_models, stored in the cache
GetOptimalModelName(i, name) ==
    IF CACHED_MODEL_NAME # 0
    THEN /\ name = "uncached"
         /\ model_from' = [model_from EXCEPT ![i] = CACHED_MODEL_NAME]
         /\ UNCHANGED CACHED_MODEL_NAME
    ELSE /\ CACHED_MODEL_NAME' = IF name = "cached" THEN i ELSE 0
         /\ UNCHANGED model_from

\* optimize_image ends in its thread: "fail_early" raises before the
\* temporary file exists, "fail_save" after NamedTemporaryFile created it;
\* both return None. With the file written, parse_items_with_llm is called
\* and asks get_optimal_model_name for the model before its first await
OptimizeDone(i, outcome, name) ==
    /\ pc[i] = "optimize"
    /\ IF outcome = "ok"
       THEN GetOptimalModelName(i, name)
       ELSE name = "uncached" /\ UNCHANGED llm_vars
    /\ tmp_files' = IF outcome \in {"ok", "fail_save"} THEN tmp_files \cup {i} ELSE tmp_files
    /\ temp_jpeg_path' = [temp_jpeg_path EXCEPT ![i] = (outcome = "ok")]
    /\ IF outcome = "ok"
       THEN /\ pc' = [pc EXCEPT ![i] = "open_img"]
            /\ UNCHANGED <<sem, attempt, page_result, failed_at, overtaken>>
       ELSE Fail(i, "optimize")
    /\ UNCHANGED <<sleep_time, last_error, extracted>>
    /\ UNCHANGED <<profile, api_vars, doc_vars, parser_vars>>

\* PIL.Image.open ends in its thread; on failure parse_items_with_llm
\* returns its default triple
OpenImageDone(i, outcome) ==
    /\ pc[i] = "open_img"
    /\ IF outcome = "ok"
       THEN /\ pc' = [pc EXCEPT ![i] = "generate"]
            /\ attempt' = [attempt EXCEPT ![i] = 0]
            /\ UNCHANGED <<sem, tmp_files, page_result, failed_at, extracted, overtaken>>
       ELSE Returned(i, BillDetail, <<>>, base_usage)
    /\ UNCHANGED <<sleep_time, last_error, temp_jpeg_path, llm_vars>>
    /\ UNCHANGED <<profile, api_vars, doc_vars, parser_vars>>

\* generate_content_async returns a reply; an exception of json.loads,
\* parsed.get or the flattening loop is caught by the same except block
GenerateReplies(i, resp) ==
    /\ pc[i] = "generate"
    /\ LET r == ParseResponse(resp)
       IN  IF r.raised
           THEN /\ last_error' = [last_error EXCEPT ![i] = "other"]
                /\ Fail(i, "extract")
                /\ UNCHANGED <<tmp_files, extracted>>
           ELSE /\ last_error' = [last_error EXCEPT ![i] = "none"]
                /\ Returned(i, r.p_type, r.items, r.usage)
    /\ UNCHANGED <<sleep_time, temp_jpeg_path, llm_vars>>
    /\ UNCHANGED <<profile, api_vars, doc_vars, parser_vars>>

\* Variant: range(max_retries + 1)
LoopContinuesOnceMore(a) == a < max_retries

\* for attempt in range(max_retries): "continue" finds a next value
LoopContinues(a) == a + 1 < max_retries

\* generate_content_async raises: 404 goes on to the next attempt at once,
\* 429 sleeps unless this was the last attempt, anything else is raised
GenerateRaises(i, err, jitter) ==
    /\ pc[i] = "generate"
    /\ last_error' = [last_error EXCEPT ![i] = err]
    /\ CACHED_MODEL_NAME' = IF ModelNotFound(err) THEN 0 ELSE CACHED_MODEL_NAME
    /\ IF ModelNotFound(err)
       THEN /\ IF LoopContinues(attempt[i])
               THEN /\ attempt' = [attempt EXCEPT ![i] = attempt[i] + 1]
                    /\ UNCHANGED <<sem, pc, tmp_files, page_result, failed_at,
                                   extracted, overtaken>>
               ELSE \* the loop is exhausted: the default triple after it
                    Returned(i, BillDetail, <<>>, base_usage)
            /\ UNCHANGED sleep_time
       ELSE IF Backoff(err, attempt[i])
       THEN /\ pc' = [pc EXCEPT ![i] = "sleep"]
            /\ sleep_time' = [sleep_time EXCEPT ![i] = SleepTime(attempt[i], jitter)]
            /\ UNCHANGED <<sem, attempt, tmp_files, page_result, failed_at, extracted,
                           overtaken>>
       ELSE /\ Fail(i, "extract")
            /\ UNCHANGED <<sleep_time, tmp_files, extracted>>
    /\ UNCHANGED <<temp_jpeg_path, model_from>>
    /\ UNCHANGED <<profile, api_vars, doc_vars, parser_vars>>

\* asyncio.sleep(sleep_time) ends: the next attempt is made
SleepDone(i) ==
    /\ pc[i] = "sleep"
    /\ pc' = [pc EXCEPT ![i] = "generate"]
    /\ attempt' = [attempt EXCEPT ![i] = attempt[i] + 1]
    /\ sleep_time' = [sleep_time EXCEPT ![i] = 0]
    /\ UNCHANGED <<sem, last_error, temp_jpeg_path, tmp_files, page_result, failed_at,
                   extracted, overtaken, llm_vars>>
    /\ UNCHANGED <<profile, api_vars, doc_vars, parser_vars>>

\* Variant: asyncio.wait(..., return_when=FIRST_COMPLETED) in place of gather
GatherReadyOnFirst(state) == \E i \in DOMAIN state : state[i] = "done"

\* await asyncio.gather(*tasks) resumes once every awaitable has returned
GatherReady(state) == \A i \in DOMAIN state : state[i] = "done"

\* Every task returned: aggregate, sort, clean up, return; the HTTP layer
\* logs the result and answers with it
GatherDone ==
    /\ doc_pc = "gather"
    /\ GatherReady(pc)
    /\ doc_pc' = "returned"
    /\ local_file' = LeftByFinally(FALSE)
    /\ API_HISTORY' = LogSuccess(API_HISTORY)
    /\ response' = OkResponse(DocumentResult(page_result))
    /\ api_pc' = "responded"
    /\ UNCHANGED <<profile, ext, is_pdf, max_pages, tasks, parser_vars>>
    /\ UNCHANGED task_vars

Next ==
    \/ \E body \in {"url", "no_url", "api_key"} : Request(body)
    \/ DownloadFails
    \/ \E e \in DocExts, pages \in PageCounts, ok \in BOOLEAN : DownloadDone(e, pages, ok)
    \/ \E i \in Tasks : Acquire(i)
    \/ \E i \in Tasks, o \in ConvertOutcomes : ConvertDone(i, o)
    \/ \E i \in Tasks, o \in OptimizeOutcomes, n \in NameOutcomes : OptimizeDone(i, o, n)
    \/ \E i \in Tasks, o \in OpenOutcomes : OpenImageDone(i, o)
    \/ \E i \in Tasks, resp \in ModelReplies : GenerateReplies(i, resp)
    \/ \E i \in Tasks, err \in ModelErrors, j \in Jitter : GenerateRaises(i, err, j)
    \/ \E i \in Tasks : SleepDone(i)
    \/ GatherDone

Spec == Init /\ [][Next]_vars

\* Page task i takes its next step: it enters the semaphore when its turn
\* has come and a permit is free, or the call it awaits (a thread, the
\* vision call, the sleep) returns or raises and the event loop runs its
\* continuation, which moves the task on or starts the next attempt
TaskAdvances(i) ==
    /\ i \in Tasks
    /\ doc_pc = "gather"
    /\ pc[i] # "done"
    /\ pc[i] = "pending" /\ is_pdf =>
           SemFree(sem) /\ \A j \in 1..(i - 1) : pc[j] # "pending"
    /\ \E p \in {"convert", "optimize", "open_img", "generate", "sleep", "done"},
          a \in 0..max_retries :
           /\ <<p, a>> # <<pc[i], attempt[i]>>
           /\ pc' = [pc EXCEPT ![i] = p]
           /\ attempt' = [attempt EXCEPT ![i] = a]

\* gather resumes process_bill_async once every awaitable has returned
GatherResumes ==
    /\ doc_pc = "gather"
    /\ GatherReady(pc)
    /\ doc_pc' = "returned"

\* Every awaited call returns or raises and the event loop runs every
\* continuation that is ready: no page task and no gather waits forever
\* with its next step possible
FairSpec ==
    /\ Spec
    /\ \A i \in 1..BulkPages : WF_<<pc, attempt>>(TaskAdvances(i))
    /\ WF_doc_pc(GatherResumes)

\* ------------------------------------------------------- the parser run
\* Tokens: every string over the characters clean_number_token tells
\* apart, and the amounts as bills print them
TokChars == {"₹", "$", "/", "-", ",", ".", "5", "0", "a", " "}

ExampleTokens ==
    {<<"₹", "1", ",", "2", "3", "4", ".", "5", "0">>,
     <<"5", "0", "0", "/", "-">>,
     <<"$", " ", "1", ",", "0", "0", "0">>,
     <<"-", "1", "2", ".", "5">>,
     <<"1", ".", "2", ".", "3">>}

Tokens == UNION {[1..n -> TokChars] : n \in 0..MaxTokLen} \cup ExampleTokens

\* A word box of ocr_page; of its keys the parser reads text, left, top
\* and height
Box(text, left, top) == [text |-> text, left |-> left, top |-> top, height |-> 10]

Tab    == <<"T", "a", "b">>
tab    == <<"t", "a", "b">>
Grand  == <<"G", "r", "a", "n", "d">>
Total  == <<"T", "o", "t", "a", "l">>
Seven  == <<"7">>
Suffix == <<"2", "/", "-">>

BoxTexts == {Tab, Total, Seven, Suffix}
BoxLefts == {10, 50}
BoxTops  == {0, 10, 40}
Boxes    == {Box(t, l, p) : t \in BoxTexts, l \in BoxLefts, p \in BoxTops}

\* A bill table: an item line with quantity, rate and amount, the same
\* item again in lower case, a line without a number and a totals line,
\* in the order OCR may deliver the words
TablePage ==
    <<Box(<<"7", "0">>, 130, 2), Box(Grand, 10, 120), Box(tab, 10, 40),
      Box(<<"3", "5">>, 90, 0), Box(Tab, 10, 0), Box(<<"4", "5", ",", "0", "0", "0">>, 90, 121),
      Box(Tab, 50, 80), Box(<<"2">>, 50, 1), Box(<<"7", "0">>, 50, 41),
      Box(Tab, 10, 81), Box(Total, 50, 119)>>

\* Lines made of numbers only, a line of five words and one of four with
\* a single number, and a keyword line with two numbers
NumbersPage ==
    <<Box(<<"1">>, 10, 0), Box(<<"2">>, 50, 0), Box(<<"3", "5">>, 90, 0),
      Box(<<"7", "0">>, 130, 0),
      Box(<<"a">>, 10, 40), Box(<<"b">>, 20, 40), Box(<<"c">>, 30, 40),
      Box(<<"d">>, 40, 40), Box(<<"5">>, 50, 40),
      Box(<<"a">>, 10, 80), Box(<<"b">>, 20, 80), Box(<<"c">>, 30, 80),
      Box(<<"5">>, 40, 80),
      Box(Total, 10, 120), Box(<<"5">>, 50, 120), Box(<<"7", "0">>, 90, 120)>>

\* Words whose centres chain into one line, a number left of the name,
\* printed amounts and an amount of three decimals
MixedPage ==
    <<Box(<<"7", "0">>, 90, 20), Box(Tab, 10, 0), Box(Seven, 50, 10),
      Box(Tab, 50, 60), Box(<<"5">>, 10, 60),
      Box(<<"₹", "1", ",", "2", "3", "4", ".", "5", "0">>, 50, 100), Box(tab, 10, 100),
      Box(<<"5", "0", "0", "/", "-">>, 90, 101),
      Box(<<"1", ".", "2", "3", "4">>, 50, 140), Box(Tab, 10, 140)>>

\* Lines that open with a number whose digits come again inside a later
\* word: a count before an amount, and a count before a code
CodesPage ==
    <<Box(<<"5">>, 10, 0), Box(<<"1", "5">>, 50, 0),
      Box(<<"1", "2">>, 10, 40), Box(<<"A", "1", "2", "-", "B">>, 50, 40)>>

ExamplePages == {TablePage, NumbersPage, MixedPage, CodesPage}

Pages == UNION {[1..n -> Boxes] : n \in 0..MaxWords} \cup ExamplePages

\* A token waits for clean_number_token, or a page of word boxes for
\* group_lines, parse_items and find_totals
ParserInit ==
    /\ profile = "full"
    /\ PipelineIdle
    /\ OcrIdle
    /\ \/ ocr_pc = "token" /\ token \in Tokens /\ words = <<>>
       \/ ocr_pc = "words" /\ token = <<>> /\ words \in Pages
    /\ token_value = NoFloat
    /\ lines = <<>>
    /\ parsed_items = <<>>
    /\ dedup = <<>>
    /\ totals = <<>>

CleanToken ==
    /\ ocr_pc = "token"
    /\ token_value' = clean_number_token(token)
    /\ ocr_pc' = "cleaned"
    /\ UNCHANGED <<token, words, lines, parsed_items, dedup, totals>>
    /\ UNCHANGED <<pipeline_vars, ocr_vars>>

GroupLines ==
    /\ ocr_pc = "words"
    /\ lines' = group_lines(words)
    /\ ocr_pc' = "lines"
    /\ UNCHANGED <<token, token_value, words, parsed_items, dedup, totals>>
    /\ UNCHANGED <<pipeline_vars, ocr_vars>>

ParseItems ==
    /\ ocr_pc = "lines"
    /\ parsed_items' = ItemsOfLines(lines)
    /\ dedup' = parse_items(lines)
    /\ ocr_pc' = "items"
    /\ UNCHANGED <<token, token_value, words, lines, totals>>
    /\ UNCHANGED <<pipeline_vars, ocr_vars>>

FindTotals ==
    /\ ocr_pc = "items"
    /\ totals' = find_totals(lines)
    /\ ocr_pc' = "totals"
    /\ UNCHANGED <<token, token_value, words, lines, parsed_items, dedup>>
    /\ UNCHANGED <<pipeline_vars, ocr_vars>>

ParserNext ==
    \/ CleanToken
    \/ GroupLines
    \/ ParseItems
    \/ FindTotals

ParserSpec == ParserInit /\ [][ParserNext]_vars

\* ------------------------------------------------------ the request run
\* process_extraction_logic, request after request of one server process,
\* the pipeline of each request taken by its outcome
HistoryInit ==
    /\ profile = "full"
    /\ PipelineIdle
    /\ ParserOff

\* process_bill returned: the entry is inserted at the front and the list
\* trimmed, the result is the response
RequestServed ==
    /\ Len(API_HISTORY) < MaxLogged
    /\ API_HISTORY' = LogSuccess(API_HISTORY)
    /\ response' = OkResponse(DocumentResult(<<FailedResult(1)>>))
    /\ UNCHANGED <<profile, api_pc, doc_vars, task_vars, parser_vars>>

\* No URL in the body, an API key in it, or process_bill raised: the except
\* block inserts the error entry and raises HTTPException
RequestRefused(detail) ==
    /\ Len(API_HISTORY) < MaxLogged
    /\ API_HISTORY' = LogError(API_HISTORY)
    /\ response' = HttpError(detail)
    /\ UNCHANGED <<profile, api_pc, doc_vars, task_vars, parser_vars>>

HistoryNext ==
    \/ RequestServed
    \/ \E detail \in {"no_url", "api_key", "download"} : RequestRefused(detail)

HistorySpec == HistoryInit /\ [][HistoryNext]_vars

\* ------------------------------------------------- the OCR endpoint
\* What the download may deliver: an image by content type or extension,
\* a PDF, or an image of a type the download does not know (saved as .bin)
Documents ==
    {[kind |-> k, pages |-> 1] : k \in {"image", "other_image"}}
        \cup {[kind |-> "pdf", pages |-> n] : n \in 1..MaxOcrPages}

\* group_lines, parse_items and find_totals of process_image_file, for
\* each list of words ocr_page may return: no word, or a number on a line
\* of its own above a name with a number
ParsedPages ==
    {[items  |-> parse_items(group_lines(ws)),
      totals |-> find_totals(group_lines(ws))] :
        ws \in {<<>>, <<Box(Seven, 10, 0), Box(Tab, 10, 40), Box(Seven, 50, 40)>>}}

\* page_obj of process_image_file (detected_totals is left out of the
\* dict when it is empty)
PageObject(page_no, parsed) ==
    [page_no |-> PageNo(page_no), page_type |-> BillDetail,
     bill_items |-> parsed.items, detected_totals |-> parsed.totals]

\* Variant: the count of the last page replaces the sum
AccumulateLast(total_items, cnt) == cnt

\* total_items += cnt
Accumulate(total_items, cnt) == total_items + cnt

\* The response extract_bill_data builds from process_document_from_url's
\* dict: of a page it keeps page_no, page_type and the items, an item with
\* "" for a missing name and its numbers as they are (float() of a float)
SuccessResponse(pagewise, total_items) ==
    LET clean_item(it) ==
            [item_name     |-> IF it.item_name.kind = "none" THEN PyStr(<<>>)
                               ELSE it.item_name,
             item_amount   |-> it.item_amount,
             item_rate     |-> it.item_rate,
             item_quantity |-> it.item_quantity]
    IN  [is_success  |-> TRUE,
         token_usage |-> base_usage,
         data |-> [pagewise_line_items |->
                       [k \in 1..Len(pagewise) |->
                           [page_no    |-> pagewise[k].page_no,
                            page_type  |-> pagewise[k].page_type,
                            bill_items |-> [j \in 1..Len(pagewise[k].bill_items) |->
                                               clean_item(pagewise[k].bill_items[j])]]],
                   total_item_count |-> total_items]]

\* The response of extract_bill_data's except block
FailureResponse(error) ==
    [is_success  |-> FALSE,
     token_usage |-> base_usage,
     data |-> [pagewise_line_items |-> <<>>, total_item_count |-> 0],
     error |-> error]

\* An exception leaves process_document_from_url: its finally removes the
\* local file, the endpoint answers from its except block
Raises(call, error) ==
    [call EXCEPT !.pc = "done", !.local_file = FALSE, !.outcome = "raised",
                 !.raised = @ \cup {error}, !.response = FailureResponse(error)]

\* process_pdf_file raised: process_image_file(local_file, page_no=1)
FallsBack(call, error) ==
    [call EXCEPT !.pc = "copy", !.page = 1, !.fallback = TRUE,
                 !.raised = @ \cup {error}, !.pagewise = <<>>, !.total_items = 0]

\* The file process_image_file is given for the page of the call: the
\* page image process_pdf_file saved, or the downloaded file itself
ImagePath(c) ==
    IF calls[c].kind = "pdf" /\ ~calls[c].fallback
    THEN IMAGES_DIR.temp[calls[c].page]
    ELSE [call |-> c, page |-> 1, image |-> calls[c].kind # "pdf"]

\* download_url_to_file ends: it raised, or the file is processed as an
\* image, or process_pdf_file is tried first
OcrDownload(c, ok, doc) ==
    /\ calls[c].pc = "idle"
    /\ calls' = [calls EXCEPT ![c] =
           IF ~ok THEN Raises(@, "download")
           ELSE [@ EXCEPT !.pc = IF doc.kind = "image" THEN "copy" ELSE "convert",
                          !.kind = doc.kind, !.pages = doc.pages, !.page = 1,
                          !.local_file = TRUE]]
    /\ UNCHANGED <<IMAGES_DIR, pipeline_vars, page_vars>>

\* convert_from_path ends: the pages of a PDF, or an exception (always so
\* for a file that is no PDF) that the bare except turns into the fallback
ConvertPdf(c, ok) ==
    /\ calls[c].pc = "convert"
    /\ ok => calls[c].kind = "pdf"
    /\ calls' = [calls EXCEPT ![c] =
           IF ok THEN [@ EXCEPT !.pc = "save"] ELSE FallsBack(@, "convert")]
    /\ UNCHANGED <<IMAGES_DIR, pipeline_vars, page_vars>>

\* page.save(img_path, "PNG") writes _temp_pdf_page_<i>.png
SavePage(c) ==
    /\ calls[c].pc = "save"
    /\ IMAGES_DIR' = [IMAGES_DIR EXCEPT !.temp[calls[c].page] =
                          [call |-> c, page |-> calls[c].page, image |-> TRUE]]
    /\ calls' = [calls EXCEPT ![c].pc = "copy"]
    /\ UNCHANGED <<pipeline_vars, page_vars>>

\* shutil.copyfile(image_path, dest_path) writes page_<n>.png with what
\* image_path holds now; when it raises, dest_path is image_path
CopyPage(c, ok) ==
    /\ calls[c].pc = "copy"
    /\ IMAGES_DIR' = IF ok THEN [IMAGES_DIR EXCEPT !.page[calls[c].page] = ImagePath(c)]
                     ELSE IMAGES_DIR
    /\ calls' = [calls EXCEPT ![c].pc = "ocr", ![c].stable = ok]
    /\ UNCHANGED <<pipeline_vars, page_vars>>

\* The file ocr_page(dest_path) reads for the page of the call
DestPath(c) ==
    IF calls[c].stable THEN IMAGES_DIR.page[calls[c].page] ELSE ImagePath(c)

\* ocr_page raises, as it always does when the file is no image: the PDF
\* run falls back, any other call ends by the exception
OcrRaises(c) ==
    /\ calls[c].pc = "ocr"
    /\ LET call == calls[c]
           seen == [call EXCEPT !.ocr_input = [page_no |-> call.page, file |-> DestPath(c)]]
       IN  calls' = [calls EXCEPT ![c] =
               IF call.kind = "pdf" /\ ~call.fallback
               THEN FallsBack(seen, "ocr")
               ELSE Raises(seen, "ocr")]
    /\ UNCHANGED <<IMAGES_DIR, pipeline_vars, page_vars>>

\* ocr_page returns the words of the file and the page is parsed: the
\* PDF run goes on with its next page, else the call returns its dict and
\* the endpoint answers with it
OcrReads(c, parsed) ==
    /\ calls[c].pc = "ocr"
    /\ DestPath(c).image
    /\ LET call     == calls[c]
           page_obj == PageObject(call.page, parsed)
           seen     == [call EXCEPT
                          !.ocr_input = [page_no |-> call.page, file |-> DestPath(c)],
                          !.pagewise = Append(@, page_obj),
                          !.total_items = Accumulate(@, Len(page_obj.bill_items))]
       IN  calls' = [calls EXCEPT ![c] =
               IF call.kind = "pdf" /\ ~call.fallback /\ call.page < call.pages
               THEN [seen EXCEPT !.pc = "save", !.page = @ + 1]
               ELSE [seen EXCEPT !.pc = "done", !.local_file = FALSE,
                                 !.outcome = "returned",
                                 !.response = SuccessResponse(seen.pagewise, seen.total_items)]]
    /\ UNCHANGED <<IMAGES_DIR, pipeline_vars, page_vars>>

OcrNext ==
    \/ \E c \in Calls, ok \in BOOLEAN, doc \in Documents : OcrDownload(c, ok, doc)
    \/ \E c \in Calls, ok \in BOOLEAN : ConvertPdf(c, ok)
    \/ \E c \in Calls : SavePage(c)
    \/ \E c \in Calls, ok \in BOOLEAN : CopyPage(c, ok)
    \/ \E c \in Calls : OcrRaises(c)
    \/ \E c \in Calls, parsed \in ParsedPages : OcrReads(c, parsed)

OcrSpec == HistoryInit /\ [][OcrNext]_vars

\* ================================================================ claims
\* The pages of the document process_bill_async returned
Entries == response.body.data.pagewise_line_items

RECURSIVE ItemsUpTo(_, _)
ItemsUpTo(pages, n) ==
    IF n = 0 THEN 0 ELSE Len(pages[n].bill_items) + ItemsUpTo(pages, n - 1)

\* C1: in every document process_bill_async returns, total_item_count is
\* the sum of len(bill_items) over the entries of pagewise_line_items,
\* whatever mix of page tasks succeeded and failed.
C1_TotalItemCount ==
    doc_pc = "returned" =>
        response.body.data.total_item_count = ItemsUpTo(Entries, Len(Entries))

C1_Witness ==
    /\ doc_pc = "returned"
    /\ \E i, j \in Tasks : /\ failed_at[i] # "none"
                           /\ Len(page_result[j].bill_items) >= 2
    /\ response.body.data.total_item_count >= 2

\* C2: pagewise_line_items of the returned document is in ascending order
\* of int(page_no), whatever order the page tasks finished in.
C2_SortedByPageNo ==
    doc_pc = "returned" =>
        \A i, j \in 1..Len(Entries) :
            i < j => PyInt(Entries[i].page_no.s) <= PyInt(Entries[j].page_no.s)

C2_Witness ==
    /\ doc_pc = "returned"
    /\ Len(Entries) >= 2
    /\ overtaken

FailedSteps == {"convert", "optimize", "extract"}

\* The entries of the returned document for the page of task i
EntriesOf(i) == {e \in 1..Len(Entries) : Entries[e].page_no = PageNo(tasks[i])}

C3_Result ==
    doc_pc = "returned" =>
        \A k \in Tasks : failed_at[k] \in FailedSteps =>
            /\ response.body.is_success = TRUE
            /\ EntriesOf(k) # {}
            /\ \A e \in EntriesOf(k) : /\ Entries[e].page_type = BillDetail
                                       /\ Entries[e].bill_items = <<>>
            /\ page_result[k].token_usage = base_usage
            /\ \A j \in Tasks \ {k} :
                   /\ EntriesOf(j) # {}
                   /\ \A e \in EntriesOf(j) :
                          Entries[e].bill_items = page_result[j].bill_items

C3_SiblingsUntouched ==
    \A k \in Tasks :
        (failed_at[k] = "none" /\ failed_at'[k] # "none") =>
            \A j \in Tasks \ {k} : pc'[j] = pc[j] /\ page_result'[j] = page_result[j]

\* C3: when the rasterization or the extraction of a page raises, the
\* document still returns with is_success true, that page is present as a
\* "Bill Detail" entry with no items and zero token usage, every other page
\* holds the items its own task returned, and the step in which the page
\* fails changes no other task.
C3_FailureIsolated == [](C3_Result) /\ [][C3_SiblingsUntouched]_vars

C3_Witness ==
    /\ doc_pc = "returned"
    /\ Len(tasks) >= 3
    /\ failed_at[2] = "convert"
    /\ page_result[1].bill_items # <<>>
    /\ page_result[3].bill_items # <<>>

\* Tasks inside parse_items_with_llm
Extracting == {i \in Tasks : pc[i] \in {"open_img", "generate", "sleep"}}

\* C4: never more page tasks of a PDF are extracting at once than the
\* semaphore has permits.
C4_ExtractingBound == Cardinality(Extracting) <= SemSize

C4_Witness ==
    /\ Cardinality(Extracting) = SemSize
    /\ \E i \in Tasks : pc[i] = "pending"

\* v is the decimal string of the positive integer p
IsDecimalOf(v, p) ==
    /\ v.kind = "str"
    /\ v.s # <<>>
    /\ \A c \in 1..Len(v.s) : IsDigit(v.s[c])
    /\ v.s[1] # "0"
    /\ PyInt(v.s) = p

\* C5: the returned document of an N-page document (N = 1 for an image)
\* has exactly one entry for each page 1..N and no other; page_no is the
\* decimal string of the page and the first entry is "1".
C5_OneEntryPerPage ==
    doc_pc = "returned" =>
        LET N == IF is_pdf THEN max_pages ELSE 1
        IN  /\ Len(Entries) = N
            /\ \A p \in 1..N :
                   Cardinality({e \in 1..Len(Entries) : IsDecimalOf(Entries[e].page_no, p)}) = 1
            /\ Entries[1].page_no.s = <<"1">>

C5_Witness ==
    /\ doc_pc = "returned"
    /\ is_pdf
    /\ max_pages >= 2
    /\ Len(Entries) = max_pages

Trimmed(cs) == cs = <<>> \/ (cs[1] \notin Whitespace /\ cs[Len(cs)] \notin Whitespace)

\* The raw value gives no number: absent, null or rejected by float()
NoNumber(raw, f) == f \notin DOMAIN raw \/ raw[f].kind = "none" \/ ~FloatOf(raw[f]).ok

\* C6: every item of every page a task returned has the four keys,
\* item_name a trimmed string and the three numeric fields floats, 0.0
\* where the raw value was null, missing or unconvertible.
C6_ItemsNormalized ==
    \A i \in Tasks : pc[i] = "done" =>
        \A k \in 1..Len(page_result[i].bill_items) :
            LET item == page_result[i].bill_items[k]
                raw  == extracted[i].items[k]
            IN  /\ ItemKeys \subseteq DOMAIN item
                /\ item.item_name.kind = "str"
                /\ Trimmed(item.item_name.s)
                /\ \A f \in NumFields :
                       /\ item[f].kind = "float"
                       /\ NoNumber(raw, f) => item[f].n = 0

C6_Witness ==
    \E i \in Tasks :
        /\ pc[i] = "done"
        /\ \E k \in 1..Len(page_result[i].bill_items) :
               /\ extracted[i].items[k] = ItSparse
               /\ page_result[i].bill_items[k].item_quantity = PyFloat(0)
               /\ page_result[i].bill_items[k].item_amount = PyFloat(0)

\* C7: a page whose extraction call returned always ends as a succeeded
\* page with one normalised item per raw item; normalisation never fails it.
C7_NormalizeNeverRaises ==
    \A i \in Tasks : (pc[i] = "done" /\ extracted[i].returned) =>
        /\ failed_at[i] = "none"
        /\ Len(page_result[i].bill_items) = Len(extracted[i].items)

\* C8: the temporary JPEG of a page task is gone once the task has ended,
\* on every exit path.
C8_TempFilesRemoved == \A i \in Tasks : pc[i] = "done" => i \notin tmp_files

\* C9: a document of an unsupported media type runs no page task and is
\* answered with is_success = false.
C9_UnsupportedRejected ==
    (api_pc = "responded" /\ ext \in Exts \ ({".pdf"} \cup SupportedImages)) =>
        /\ tasks = <<>>
        /\ doc_pc = "raised"
        /\ "is_success" \in DOMAIN response.body
        /\ response.body.is_success = FALSE

\* C10: the page_type of every page of the returned document is one of
\* "Pharmacy", "Final Bill", "Bill Detail".
C10_PageTypeEnum ==
    doc_pc = "returned" =>
        \A e \in 1..Len(Entries) : Entries[e].page_type \in PageTypes

\* C11: normalising an item that is already normalised (a trimmed string
\* name and three float fields) gives the same item back.
IsNormalized(item) ==
    /\ ItemKeys \subseteq DOMAIN item
    /\ item.item_name.kind = "str"
    /\ Trimmed(item.item_name.s)
    /\ \A f \in NumFields : item[f].kind = "float"

C11_NormalizeIdempotent ==
    \A i \in Tasks :
        \A k \in 1..Len(page_result[i].bill_items) :
            LET item == page_result[i].bill_items[k]
            IN  IsNormalized(item) => NormalizeItem(item) = item

C11_Witness ==
    \E i \in Tasks :
        /\ pc[i] = "done"
        /\ \E k \in 1..Len(page_result[i].bill_items) :
               LET item == page_result[i].bill_items[k]
               IN  /\ IsNormalized(item)
                   /\ item # extracted[i].items[k]
                   /\ item.item_name.s # <<>>
                   /\ item.item_amount.n > 0

\* C12: each of input_tokens, output_tokens and total_tokens of the
\* returned document is the sum of that field over the token usage of
\* all page tasks, a failed page counting zero.
RECURSIVE UsageUpTo(_, _)
UsageUpTo(k, n) ==
    IF n = 0 THEN 0
    ELSE (IF failed_at[n] # "none" THEN 0 ELSE page_result[n].token_usage[k])
         + UsageUpTo(k, n - 1)

C12_TokenUsageSummed ==
    doc_pc = "returned" =>
        \A k \in {"input_tokens", "output_tokens", "total_tokens"} :
            response.body.token_usage[k] = UsageUpTo(k, Len(tasks))

C12_Witness ==
    /\ doc_pc = "returned"
    /\ \E i, j \in Tasks : /\ i # j
                           /\ failed_at[i] # "none"
                           /\ page_result[j].token_usage.input_tokens > 0
    /\ response.body.token_usage.input_tokens > 0
    /\ response.body.token_usage.output_tokens > 0

\* C13: the document result is built once, and only when every page task
\* has ended: no result exists while a task is pending, waiting for the
\* semaphore, extracting or normalising.
C13_AllEnded ==
    response.status = 200 =>
        /\ tasks # <<>>
        /\ \A i \in Tasks : pc[i] = "done"

C13_BuiltOnce ==
    /\ response.status = 200 => response' = response
    /\ (response' # response /\ response'.status = 200) =>
           /\ doc_pc = "gather"
           /\ \A i \in Tasks : pc[i] = "done"

C13_ResultAfterAllTasks == [](C13_AllEnded) /\ [][C13_BuiltOnce]_vars

C13_Witness ==
    /\ response.status = 200
    /\ Len(tasks) >= 2
    /\ overtaken
    /\ \E i \in Tasks : failed_at[i] # "none"

\* The attempt of task i ends in this step with an exception of class err
AttemptRaises(i, err) ==
    /\ pc[i] = "generate"
    /\ pc'[i] # "generate" \/ attempt'[i] # attempt[i]
    /\ last_error'[i] = err

\* C19: a 429 failure on an attempt before the last is followed by a sleep
\* of 1.5 * (attempt + 1) seconds plus a jitter of 0.1 to 0.5 seconds and
\* then by the next attempt; a 429 failure on the last allowed attempt is
\* raised and the page task ends Failed.
C19_RateLimited ==
    \A i \in Tasks : AttemptRaises(i, "429") =>
        IF attempt[i] < max_retries - 1
        THEN /\ pc'[i] = "sleep"
             /\ sleep_time'[i] - (15 * (attempt[i] + 1)) \in 1..5
             /\ attempt'[i] = attempt[i]
        ELSE /\ pc'[i] = "done"
             /\ failed_at'[i] = "extract"
             /\ page_result'[i] = [page_no |-> PageNo(tasks[i]), page_type |-> BillDetail,
                                   bill_items |-> <<>>, token_usage |-> base_usage]

C19_NextAttempt ==
    \A i \in Tasks : (pc[i] = "sleep" /\ pc'[i] # "sleep") =>
        /\ pc'[i] = "generate"
        /\ attempt'[i] = attempt[i] + 1
        /\ attempt'[i] < max_retries

C19_BackoffThenRaise == [][C19_RateLimited /\ C19_NextAttempt]_vars

C19_Witness ==
    \E i, j \in Tasks :
        /\ pc[i] = "sleep" /\ attempt[i] = max_retries - 2 /\ sleep_time[i] = 65
        /\ pc[j] = "done" /\ failed_at[j] = "extract" /\ last_error[j] = "429"

\* C20 as stated: a failure of the vision call that is no rate-limit
\* response, a model-not-found 404 included, is raised on the attempt
\* where it occurs and no further attempt is made.
C20_Raised(i) ==
    /\ pc'[i] = "done"
    /\ failed_at'[i] = "extract"

C20_NoRateLimitNoRetry ==
    [][\A i \in Tasks :
          (AttemptRaises(i, "404") \/ AttemptRaises(i, "other")) => C20_Raised(i)]_vars

\* C20 amended: a failure of the vision call whose message holds neither
\* "429" nor "404" (a transport error, malformed JSON) is raised on the
\* attempt where it occurs and no further attempt is made.
C20_OtherFailureNoRetry ==
    [][\A i \in Tasks : AttemptRaises(i, "other") => C20_Raised(i)]_vars

C20_Witness ==
    \E i, j \in Tasks :
        /\ i # j
        /\ pc[i] = "done" /\ failed_at[i] = "extract" /\ last_error[i] = "other"
        /\ pc[j] = "generate" /\ attempt[j] > 0 /\ last_error[j] = "404"

\* The places of the numeric words of a line, and the n-th of them
\* counted from the right
NumericAt(line) == {i \in 1..Len(line.words) : is_number_token(line.words[i].text)}
FromRight(S, n) == CHOOSE i \in S : Cardinality({j \in S : j > i}) = n - 1
FromLeft(S, n)  == CHOOSE i \in S : Cardinality({j \in S : j < i}) = n - 1

\* C14: whatever the word boxes, every line group_lines returns has its
\* words in ascending order of left (its text being their texts joined
\* in that order). That the same input and y_tol give the same grouping
\* is true of any function and is not part of the formula.
C14_LinesSortedByLeft ==
    ocr_pc \in {"lines", "items", "totals"} =>
        \A k \in 1..Len(lines) :
            /\ \A i \in 1..(Len(lines[k].words) - 1) :
                   lines[k].words[i].left <= lines[k].words[i + 1].left
            /\ lines[k].text = Join(Texts(lines[k].words))

C14_Witness ==
    /\ ocr_pc = "lines"
    /\ Len(lines) >= 2
    /\ \E k \in 1..Len(lines) :
           /\ Len(lines[k].words) >= 3
           /\ \E i, j \in 1..Len(words) :
                  /\ i < j
                  /\ words[i].left > words[j].left
                  /\ \E a, b \in 1..Len(lines[k].words) :
                         lines[k].words[a] = words[i] /\ lines[k].words[b] = words[j]

\* C15: a line without a numeric token gives no item; a line with k >= 1
\* numeric tokens gives one item whose item_amount is the value of the
\* rightmost, item_rate that of the second from the right when k >= 2 and
\* item_quantity that of the third from the right when k >= 3, each
\* rounded to two places; a role not filled is null.
C15_ValueAt(line, n) ==
    IF Cardinality(NumericAt(line)) >= n
    THEN Round2(clean_number_token(line.words[FromRight(NumericAt(line), n)].text))
    ELSE NoFloat

C15_RolesFromTheRight ==
    ocr_pc \in {"items", "totals"} =>
        LET with_number == {k \in 1..Len(lines) : NumericAt(lines[k]) # {}}
        IN  /\ Len(parsed_items) = Cardinality(with_number)
            /\ \A r \in 1..Len(parsed_items) :
                   LET line == lines[FromLeft(with_number, r)]
                   IN  /\ parsed_items[r].item_amount   = C15_ValueAt(line, 1)
                       /\ parsed_items[r].item_rate     = C15_ValueAt(line, 2)
                       /\ parsed_items[r].item_quantity = C15_ValueAt(line, 3)
                       /\ ~parsed_items[r].item_amount.none

C15_Witness ==
    /\ ocr_pc = "items"
    /\ \E k \in 1..Len(lines) : Len(lines[k].words) >= 2 /\ NumericAt(lines[k]) = {}
    /\ \E a, b \in 1..Len(parsed_items) :
           /\ parsed_items[a].item_quantity = Float(2, 0)
           /\ parsed_items[a].item_rate = Float(35, 0)
           /\ parsed_items[a].item_amount = Float(70, 0)
           /\ parsed_items[b].item_rate.none
           /\ parsed_items[b].item_quantity.none
           /\ ~parsed_items[b].item_amount.none

\* C16: no two items parse_items returns have the same pair of lowercased
\* name ("" for a missing name) and amount; of the items of a pair the
\* first in line order is the one kept, and the kept items stay in the
\* order of their lines.
C16_Key(it) ==
    [name   |-> IF it.item_name.kind = "none" THEN <<>> ELSE Lower(it.item_name.s),
     amount |-> it.item_amount]

C16_DedupKeepsFirst ==
    ocr_pc \in {"items", "totals"} =>
        LET first == {i \in 1..Len(parsed_items) :
                         \A j \in 1..(i - 1) :
                             C16_Key(parsed_items[j]) # C16_Key(parsed_items[i])}
        IN  /\ \A a, b \in 1..Len(dedup) :
                   a # b => C16_Key(dedup[a]) # C16_Key(dedup[b])
            /\ Len(dedup) = Cardinality(first)
            /\ \A r \in 1..Len(dedup) : dedup[r] = parsed_items[FromLeft(first, r)]

C16_Witness ==
    /\ ocr_pc = "items"
    /\ Len(dedup) >= 2
    /\ \E i, j \in 1..Len(parsed_items) :
           /\ i < j
           /\ parsed_items[i] # parsed_items[j]
           /\ parsed_items[i].item_name # parsed_items[j].item_name
           /\ C16_Key(parsed_items[i]) = C16_Key(parsed_items[j])
           /\ \E a \in 1..Len(dedup) : dedup[a] = parsed_items[i]
           /\ \A a \in 1..Len(dedup) : dedup[a] # parsed_items[j]
           /\ j < Len(parsed_items)

\* C17: clean_number_token drops the currency glyphs, the "/-" suffix,
\* the commas and every character that is no digit, dot or minus, and
\* returns the value of the rest, or None when the rest is empty, ".",
\* "-" or no valid number: "₹1,234.50" gives 1234.50, "500/-" gives
\* 500.0, "-" and "" give None.
C17_Rest(tok) ==
    LET Glyph(c) == c \notin {"₹", "$"}
        s     == SelectSeq(Strip(tok), Glyph)
        slash == {i \in 1..(Len(s) - 1) : s[i] = "/" /\ s[i + 1] = "-"}
        keep  == {i \in 1..Len(s) : /\ i \notin slash
                                    /\ (i - 1) \notin slash
                                    /\ IsDigit(s[i]) \/ s[i] \in {".", "-"}}
    IN  [r \in 1..Cardinality(keep) |-> s[FromLeft(keep, r)]]

C17_Valid(rest) ==
    LET body == IF rest # <<>> /\ rest[1] = "-" THEN Tail(rest) ELSE rest
    IN  /\ \E i \in 1..Len(body) : IsDigit(body[i])
        /\ \A i \in 1..Len(body) : body[i] # "-"
        /\ \A i, j \in 1..Len(body) : (body[i] = "." /\ body[j] = ".") => i = j

C18_Recorded(line) ==
    \/ HasKeyword(line.text) /\ NumericAt(line) # {}
    \/ /\ ~HasKeyword(line.text)
       /\ Len(line.words) <= 4
       /\ Cardinality(NumericAt(line)) = 1

C18_Value(line) == Round2(clean_number_token(line.words[FromRight(NumericAt(line), 1)].text))

C18_LinesOf(key) == {k \in 1..Len(lines) : C18_Recorded(lines[k]) /\ Strip(lines[k].text) = key}

C18_TotalsRecorded ==
    ocr_pc = "totals" =>
        /\ {totals[e].key : e \in 1..Len(totals)}
               = {Strip(lines[k].text) : k \in {j \in 1..Len(lines) : C18_Recorded(lines[j])}}
        /\ \A e, f \in 1..Len(totals) : e # f => totals[e].key # totals[f].key
        /\ \A e \in 1..Len(totals) :
               \A k \in C18_LinesOf(totals[e].key) : totals[e].value = C18_Value(lines[k])
        /\ \A e, f \in 1..Len(totals) :
               e < f => FromRight(C18_LinesOf(totals[e].key), 1)
                            > FromRight(C18_LinesOf(totals[f].key), 1)

C18_Witness ==
    /\ ocr_pc = "totals"
    /\ Len(totals) >= 2
    /\ \E k \in 1..Len(lines) :
           /\ HasKeyword(lines[k].text)
           /\ Cardinality(NumericAt(lines[k])) >= 2
           /\ \E e \in 1..Len(totals) :
                  /\ totals[e].key = lines[k].text
                  /\ totals[e].value = Float(70, 0)
    /\ \E k \in 1..Len(lines) :
           /\ ~HasKeyword(lines[k].text)
           /\ Len(lines[k].words) = 5
           /\ Cardinality(NumericAt(lines[k])) = 1
    /\ \E k \in 1..Len(lines) :
           /\ ~HasKeyword(lines[k].text)
           /\ Len(lines[k].words) = 4
           /\ \E e \in 1..Len(totals) : totals[e].key = lines[k].text

\* --- C23
\* The number of words in the lines before line l
RECURSIVE C23_Before(_)
C23_Before(l) == IF l = 1 THEN 0 ELSE C23_Before(l - 1) + Len(lines[l - 1].words)

C23_Sorted == StableSort(words, [i \in 1..Len(words) |-> y_center(words[i])])

\* How often the box w occurs in the sequence ws
C23_Count(w, ws) == Cardinality({i \in 1..Len(ws) : ws[i] = w})

\* The line that holds the k-th word in y_center order
C23_LineAt(k) ==
    CHOOSE l \in 1..Len(lines) : C23_Before(l) < k /\ k <= C23_Before(l) + Len(lines[l].words)

\* C23: group_lines partitions the words into lines by one chain over the
\* words in y_center order: the lines hold every word exactly once, each
\* line holding a run of consecutive words of that order; two words
\* adjacent in the order share a line exactly when their centres differ by
\* at most y_tol; no word gives no line
C23_GroupLinesPartition ==
    ocr_pc \in {"lines", "items", "totals"} =>
        /\ words = <<>> => lines = <<>>
        /\ \A l \in 1..Len(lines) : lines[l].words # <<>>
        /\ C23_Before(Len(lines) + 1) = Len(words)
        /\ \A l \in 1..Len(lines) :
              LET run == SubSeq(C23_Sorted, C23_Before(l) + 1, C23_Before(l + 1))
              IN  \A i \in 1..Len(run) :
                      C23_Count(run[i], run) = C23_Count(run[i], lines[l].words)
        /\ \A k \in 1..(Len(words) - 1) :
              (C23_LineAt(k) = C23_LineAt(k + 1))
                  <=> (Abs(y_center(C23_Sorted[k + 1]) - y_center(C23_Sorted[k])) <= 2 * y_tol)

\* A page is grouped on which three words chain into one line though the
\* first and the last are further than y_tol apart, and a later word
\* opens another line
C23_Witness ==
    /\ ocr_pc = "lines"
    /\ Len(lines) >= 2
    /\ \E l \in 1..Len(lines) : \E i, j \in 1..Len(lines[l].words) :
           Abs(y_center(lines[l].words[i]) - y_center(lines[l].words[j])) > 2 * y_tol

\* --- C24
\* s with the first occurrence of old taken out
RECURSIVE C24_RemoveFirst(_, _)
C24_RemoveFirst(s, old) ==
    IF Len(s) < Len(old) THEN s
    ELSE IF SubSeq(s, 1, Len(old)) = old THEN SubSeq(s, Len(old) + 1, Len(s))
    ELSE <<Head(s)>> \o C24_RemoveFirst(Tail(s), old)

\* The text of the line after the first occurrence of the raw text of each
\* of its first n numeric words, from the left, was taken out
RECURSIVE C24_Removed(_, _)
C24_Removed(line, n) ==
    IF n = 0 THEN line.text
    ELSE C24_RemoveFirst(C24_Removed(line, n - 1),
                         line.words[FromLeft(NumericAt(line), n)].text)

C24_Name(line) ==
    LET cutoff == Min({line.words[i].left : i \in NumericAt(line)})
        before == {i \in 1..Len(line.words) : line.words[i].left < cutoff}
        parts  == [r \in 1..Cardinality(before) |-> line.words[FromLeft(before, r)].text]
        name   == IF before # {} THEN Strip(Join(parts))
                  ELSE Strip(C24_Removed(line, Cardinality(NumericAt(line))))
    IN  IF name # <<>> THEN PyStr(name) ELSE PyNone

\* C24: the item of a line with a numeric word is named by the texts,
\* joined by spaces, of the words strictly left of the leftmost numeric
\* word; when there is no such word, by the text of the line with the
\* first occurrence of the raw text of each numeric word taken out; an
\* empty name is null
C24_NameLeftOfNumbers ==
    ocr_pc \in {"items", "totals"} =>
        LET with_number == {k \in 1..Len(lines) : NumericAt(lines[k]) # {}}
        IN  \A r \in 1..Len(parsed_items) :
                parsed_items[r].item_name = C24_Name(lines[FromLeft(with_number, r)])

\* --- C29
\* What is left of the retry loop: the attempts not yet made, a sleep
\* counting for half an attempt
C29_Left(p, a) == 2 * (max_retries - a) - (IF p = "sleep" THEN 1 ELSE 0)

C29_InLoop(i) == pc[i] \in {"generate", "sleep"}

C29_Step ==
    \A i \in Tasks :
        C29_InLoop(i) /\ (pc'[i] # pc[i] \/ attempt'[i] # attempt[i]) =>
            \/ /\ pc'[i] = "done"
               /\ extracted'[i].returned \/ failed_at'[i] = "extract"
            \/ /\ pc'[i] \in {"generate", "sleep"}
               /\ C29_Left(pc'[i], attempt'[i]) < C29_Left(pc[i], attempt[i])

\* C29: whatever failures the model returns, one call of
\* parse_items_with_llm makes at most max_retries attempts (an attempt is
\* under way only with an index below max_retries), sleeps only before a
\* further attempt, and every step of the loop either ends the call, by a
\* returned triple or a raised exception, or uses up some of the attempts
\* left
C29_BoundedRetry ==
    /\ [](\A i \in Tasks :
            /\ pc[i] = "generate" => attempt[i] < max_retries
            /\ pc[i] = "sleep" => attempt[i] < max_retries - 1
            /\ C29_InLoop(i) => C29_Left(pc[i], attempt[i]) > 0)
    /\ [][C29_Step]_vars

\* A call ended after its attempts were used up: by the default triple
\* when the last failure was a 404, by the exception when it was a 429
C29_Witness ==
    /\ \E i \in Tasks : pc[i] = "done" /\ last_error[i] = "404" /\ extracted[i].returned
    /\ \E i \in Tasks : pc[i] = "done" /\ last_error[i] = "429" /\ failed_at[i] = "extract"

C26_Holders == {i \in Tasks : pc[i] \notin {"pending", "done"}}

C26_PermitsConserved ==
    doc_pc \in {"gather", "returned"} /\ is_pdf =>
        sem + Cardinality(C26_Holders) = SemSize

\* C26: a permit is held by a page task exactly from its entry into the
\* semaphore to its end, by success or by failure, so the free permits
\* and the running tasks always add up to the bound; and when every
\* awaited call returns or raises, a document that has launched its page
\* tasks, more of them than permits, comes to return with every task
\* ended and every permit free
C26_PermitsReleased ==
    /\ [](C26_PermitsConserved)
    /\ (doc_pc = "gather" /\ Len(tasks) > SemSize)
           ~> (doc_pc = "returned" /\ sem = SemSize /\ \A i \in Tasks : pc[i] = "done")

\* A PDF of more pages than permits has returned with every permit free,
\* a task of it having failed and a later task having waited for a permit
C26_Witness ==
    /\ doc_pc = "returned"
    /\ is_pdf
    /\ Len(tasks) > SemSize
    /\ sem = SemSize
    /\ \E i \in Tasks : failed_at[i] # "none"
    /\ \A i \in Tasks : pc[i] = "done"

\* --- C27
\* C27: after any sequence of requests, served or refused in any mix,
\* API_HISTORY holds at most HistoryCap entries
C27_HistoryCapped == Len(API_HISTORY) <= HistoryCap

\* --- C21
\* C21: the page tasks of a document share no mutable state but the
\* semaphore and the results gather collects: no task is handed a value
\* that a step of another task wrote (the name of the model the vision
\* call uses is worked out by each task for itself)
C21_NoSharedState ==
    \A i \in Tasks : model_from[i] = 0

\* --- C22
\* C22: when two calls of the OCR pipeline run at the same time, the file
\* a call hands to ocr_page for a page is the copy of that page of its own
\* document, as no other call wrote it in between
C22_OwnImageRead ==
    \A c \in Calls :
        calls[c].ocr_input.page_no # 0 =>
            /\ calls[c].ocr_input.file.call = c
            /\ calls[c].ocr_input.file.page = calls[c].ocr_input.page_no

\* --- C25
RECURSIVE C25_Count(_)
C25_Count(pages) ==
    IF pages = <<>> THEN 0 ELSE Len(Head(pages).bill_items) + C25_Count(Tail(pages))

C25_FailureObject(resp) ==
    /\ resp.is_success = FALSE
    /\ resp.data.pagewise_line_items = <<>>
    /\ resp.data.total_item_count = 0
    /\ resp.token_usage = base_usage

C25_SuccessObject(resp) ==
    /\ resp.is_success = TRUE
    /\ resp.data.total_item_count = C25_Count(resp.data.pagewise_line_items)

\* The claim as it is worded: a call during which the download, the PDF
\* conversion or the OCR of a page raised answers with the failure object,
\* any other call with the success object
C25_AnyFailureFails ==
    \A c \in Calls :
        calls[c].pc = "done" =>
            IF calls[c].raised # {}
            THEN C25_FailureObject(calls[c].response)
            ELSE C25_SuccessObject(calls[c].response)

\* C25: extract_bill_data always answers with the canonical object: the
\* failure object (is_success false, no pages, a count of 0, zeroed
\* token_usage) when an exception left process_document_from_url, as it
\* does when the download raises and when ocr_page raises for a document
\* processed as an image, else the success object whose total_item_count
\* is the number of bill items it returns; an exception of the PDF run
\* alone does not decide the answer
C25_CanonicalResponse ==
    \A c \in Calls :
        LET call == calls[c]
        IN  call.pc = "done" =>
                /\ call.outcome \in {"raised", "returned"}
                /\ call.outcome = "raised" =>
                       call.raised # {} /\ C25_FailureObject(call.response)
                /\ call.outcome = "returned" => C25_SuccessObject(call.response)
                /\ "download" \in call.raised => call.outcome = "raised"
                /\ "ocr" \in call.raised /\ call.kind # "pdf" => call.outcome = "raised"

\* One call was answered with the failure object after its download
\* raised, the other with the success object for a PDF of two pages that
\* both hold items
C25_Witness ==
    \E c, d \in Calls :
        /\ calls[c].pc = "done" /\ calls[c].raised = {"download"}
        /\ calls[c].response.is_success = FALSE
        /\ calls[d].pc = "done" /\ calls[d].kind = "pdf" /\ ~calls[d].fallback
        /\ calls[d].response.is_success = TRUE
        /\ Len(calls[d].response.data.pagewise_line_items) = 2
        /\ \A k \in 1..2 : calls[d].response.data.pagewise_line_items[k].bill_items # <<>>

====
